---- MODULE Spec2Model ----
(***************************************************************************)
(* Model of src/filesystem/impls/browser/BrowserFileSystem.js: the         *)
(* callback-style adapter placed on top of the IDBFS driver (_fs).         *)
(*                                                                         *)
(* Every adapter call is an entry of `calls`.  A primitive driver call is  *)
(* in flight from the turn that issues it to the turn in which the driver  *)
(* invokes the completion function; that turn is one action of the model   *)
(* and runs the whole completion function of the source.                   *)
(***************************************************************************)
EXTENDS Integers, Sequences, FiniteSets, TLC

VARIABLES
    fs,               \* the store "local" of the driver: normalised path -> node
    changeCallback,   \* _changeCallback (line 45)
    focusHandlers,    \* the callbacks the "focus" handlers of window hold (line 267)
    calls,            \* the adapter calls made so far, with their closure variables
    delivered,        \* invocations of a registered listener, in order
    now,              \* wall clock, in milliseconds
    watched,          \* the calls of watchPath, unwatchPath and unwatchAll made so far
    focused,          \* the number of "focus" events of the window so far
    inits             \* the last call of init, if any: whether its callback was called

vars == <<fs, changeCallback, focusHandlers, calls, delivered, now, watched, focused, inits>>

----------------------------------------------------------------------------
(* Bounds of the model *)

MaxCalls == 2          \* adapter calls made in one behaviour
MaxTicks == 2          \* clock steps in one behaviour
MaxWatch == 2          \* calls of watchPath, unwatchPath, unwatchAll in one behaviour
MaxFocus == 1          \* focus events of the window in one behaviour

(* Program constants (line 43) *)

FILE_WATCHER_BATCH_TIMEOUT == 200
TickMs == FILE_WATCHER_BATCH_TIMEOUT \div 2    \* granularity of the model's clock

----------------------------------------------------------------------------
(* Values *)

Null == "null"                       \* JS null in the error slot
NOT_FOUND == "NotFound"              \* FileSystemError.NOT_FOUND
ALREADY_EXISTS == "AlreadyExists"    \* FileSystemError.ALREADY_EXISTS
UNKNOWN == "Unknown"                 \* FileSystemError.UNKNOWN

NoErr == ""                          \* the driver's "no error" (null / undefined)

None == <<>>                         \* an absent value (null or undefined)
Some(v) == <<v>>
IsSome(o) == o # <<>>
The(o) == o[1]

NoFs == "undefined"                  \* _fs before init
NoListener == "undefined"            \* _changeCallback before initWatchers
Listeners == {"L1", "L2"}
SecondListener == "L2"               \* a listener registered after the first
FirstListener == "L1"                \* the listener FileSystem registers
Wholesale == <<"null">>              \* listener argument null: the whole tree

(* Paths are strings, kept as sequences of characters. *)
PathA  == <<"/", "a", "/">>
PathAB == <<"/", "a", "/", "b">>
PathAC == <<"/", "a", "/", "c">>
PathAD == <<"/", "a", "/", "d", "/">>

FilePaths == {PathAB, PathAC}
DirPaths == {PathA, PathAD}
MkdirPaths == {PathAD}
WatchPaths == {PathA}
Datas == {<<"y", "y">>}               \* the content a writeFile writes

----------------------------------------------------------------------------
(* String helpers of JavaScript used by _parentPath *)

Max(a, b) == IF a >= b THEN a ELSE b
Min(a, b) == IF a <= b THEN a ELSE b

(* String.prototype.lastIndexOf("/", from): 0-based, -1 when absent; `from` *)
(* is clamped to [0, length].                                              *)
LastIndexOfSlash(s, from) ==
    LET f == Min(Max(from, 0), Len(s) - 1)
        hits == {i \in 0..f : s[i + 1] = "/"}
    IN  IF hits = {} THEN -1 ELSE CHOOSE i \in hits : \A j \in hits : j <= i

(* String.prototype.substr(0, n) *)
Substr0(s, n) == SubSeq(s, 1, Min(Max(n, 0), Len(s)))

_parentPath(path) ==
    LET lastSlash == LastIndexOfSlash(path, Len(path))
        lastSlash2 == IF lastSlash = Len(path) - 1
                      THEN LastIndexOfSlash(path, lastSlash - 1)
                      ELSE lastSlash
    IN  Substr0(path, lastSlash2 + 1)

(* Faulty variant: an error that is neither of the two known ones is handed on as it is. *)
_mapError_passThrough(err) ==
    IF err = NoErr THEN Null
    ELSE CASE err = "ENoEntry" -> NOT_FOUND
           [] err = "EExists"  -> ALREADY_EXISTS
           [] OTHER            -> err

_mapError(err) ==
    IF err = NoErr THEN Null
    ELSE CASE err = "ENoEntry" -> NOT_FOUND
           [] err = "EExists"  -> ALREADY_EXISTS
           [] OTHER            -> UNKNOWN

----------------------------------------------------------------------------
(* The IDBFS driver behind _fs.  It is an external collaborator: the model *)
(* keeps a small store and lets every primitive also fail with a driver    *)
(* fault ("EIO"), so that each (error, result) outcome the adapter can be  *)
(* handed is produced.  A primitive takes effect in the turn that          *)
(* completes it.                                                           *)

(* The driver resolves a path: repeated and trailing slashes are dropped. *)
RECURSIVE Collapse(_)
Collapse(p) ==
    IF Len(p) <= 1 THEN p
    ELSE IF p[1] = "/" /\ p[2] = "/" THEN Collapse(Tail(p))
    ELSE <<p[1]>> \o Collapse(Tail(p))

Normalize(p) ==
    LET c == Collapse(p)
    IN  IF Len(c) > 1 /\ c[Len(c)] = "/" THEN SubSeq(c, 1, Len(c) - 1) ELSE c

NodeOrder == <<<<"/", "a", "/", "b">>, <<"/", "a", "/", "c">>, <<"/", "a", "/", "d">>>>
NodePaths == {NodeOrder[i] : i \in 1..Len(NodeOrder)}
RootDir == <<"/", "a">>              \* the directory that holds the nodes

FileNode(data, t) == [type |-> "FILE", mtime |-> t, size |-> Len(data), data |-> data]
DirNode(t) == [type |-> "DIRECTORY", mtime |-> t, size |-> 0, data |-> <<>>]

Present(store, n) == n = RootDir \/ (n \in NodePaths /\ IsSome(store[n]))
NodeAt(store, n) == IF n = RootDir THEN DirNode(0) ELSE The(store[n])
NativeStats(node) == [type |-> node.type, mtime |-> node.mtime, size |-> node.size]

RECURSIVE NamesFrom(_, _)
NamesFrom(store, i) ==
    IF i > Len(NodeOrder) THEN <<>>
    ELSE (IF IsSome(store[NodeOrder[i]])
          THEN <<SubSeq(NodeOrder[i], Len(RootDir) + 2, Len(NodeOrder[i]))>>
          ELSE <<>>) \o NamesFrom(store, i + 1)

(* An outcome of a primitive: the path it was given, the native error,    *)
(* the result, the new store.                                              *)
Outcome(path, e, r, store) == [arg |-> path, err |-> e, res |-> r, store |-> store]
Fault(path, store) == Outcome(path, "EIO", None, store)

DrvStat(store, path) ==
    LET n == Normalize(path)
    IN  {Fault(path, store),
         IF Present(store, n) THEN Outcome(path, NoErr, Some(NativeStats(NodeAt(store, n))), store)
         ELSE Outcome(path, "ENoEntry", None, store)}

DrvReadFile(store, path) ==
    LET n == Normalize(path)
    IN  {Fault(path, store),
         IF ~Present(store, n) THEN Outcome(path, "ENoEntry", None, store)
         ELSE IF NodeAt(store, n).type = "DIRECTORY" THEN Outcome(path, "EIsDirectory", None, store)
         ELSE Outcome(path, NoErr, Some(NodeAt(store, n).data), store)}

DrvReaddir(store, path) ==
    LET n == Normalize(path)
    IN  {Fault(path, store),
         IF ~Present(store, n) THEN Outcome(path, "ENoEntry", None, store)
         ELSE IF NodeAt(store, n).type = "FILE" THEN Outcome(path, "ENotDirectory", None, store)
         ELSE Outcome(path, NoErr, Some(IF n = RootDir THEN NamesFrom(store, 1) ELSE <<>>), store)}

DrvWriteFile(store, path, data, t) ==
    LET n == Normalize(path)
    IN  {Fault(path, store),
         IF n \notin NodePaths THEN Outcome(path, "EIsDirectory", None, store)
         ELSE IF Present(store, n) /\ NodeAt(store, n).type = "DIRECTORY"
              THEN Outcome(path, "EIsDirectory", None, store)
         ELSE Outcome(path, NoErr, None, [store EXCEPT ![n] = Some(FileNode(data, t))])}

DrvMkdir(store, path, t) ==
    LET n == Normalize(path)
    IN  {Fault(path, store),
         IF Present(store, n) \/ n \notin NodePaths THEN Outcome(path, "EExists", None, store)
         ELSE Outcome(path, NoErr, None, [store EXCEPT ![n] = Some(DirNode(t))])}

DrvUnlink(store, path) ==
    LET n == Normalize(path)
    IN  {Fault(path, store),
         IF ~Present(store, n) THEN Outcome(path, "ENoEntry", None, store)
         ELSE IF NodeAt(store, n).type = "DIRECTORY" THEN Outcome(path, "EPerm", None, store)
         ELSE Outcome(path, NoErr, None, [store EXCEPT ![n] = None])}

(* appshell.fs.moveToTrash works on the host's file system, which is not   *)
(* the driver's store: it succeeds or fails with a host error code.        *)
ShellMoveToTrash(store, path) ==
    {Outcome(path, NoErr, None, store), Outcome(path, "EIO", None, store)}

(* appshell.fs.mv is the host shell's as well; whatever error value it     *)
(* hands back goes through _wrap.                                          *)
ShellMv(store, oldPath, newPath) ==
    {Outcome(oldPath, e, None, store) : e \in {NoErr, "EIO", "ENoEntry", "EExists"}}

----------------------------------------------------------------------------
(* Adapter calls.  The fields done .. contents are the closure variables   *)
(* of the source; wait / waitIdx name the primitives in flight; cb and     *)
(* sigs record what the call did to its caller and to the listener, and    *)
(* log what the driver answered, in the order of the answers.              *)

NewCall(op, path, data, wait) ==
    [op |-> op, path |-> path, data |-> data,
     wait |-> wait, waitIdx |-> {},
     done |-> FALSE, rdata |-> None, rstat |-> None, rerr |-> "undefined",
     alreadyExists |-> FALSE, checked |-> None, existed |-> None, error |-> NoErr,
     count |-> 0, contents |-> <<>>, stats |-> <<>>,
     cb |-> <<>>, sigs |-> <<>>, log |-> <<>>]

InFlight(c) == Cardinality(c.wait) + Cardinality(c.waitIdx)

(* callback(...) of the caller: the arguments it was handed. *)
Args(nargs, err, data, st, names, stats) ==
    [nargs |-> nargs, err |-> err, data |-> data, stat |-> st,
     names |-> names, stats |-> stats, inFlight |-> 0, threw |-> FALSE]

Invoke(c, args, threw) ==
    [c EXCEPT !.cb = Append(@, [args EXCEPT !.inFlight = InFlight(c), !.threw = threw])]

(* _changeCallback(path, stat) *)
Emit(c, path, st) ==
    [c EXCEPT !.sigs = Append(@, [path |-> path, stat |-> st, afterCb |-> Len(c.cb)])]

FileSystemStats(native) ==
    [isFile |-> native.type = "FILE", mtime |-> native.mtime, size |-> native.size]

(* stat: what the completion function of _fs.stat hands to its callback *)
stat(o) ==
    IF o.err # NoErr
    THEN [err |-> _mapError(o.err), stat |-> None]
    ELSE [err |-> Null, stat |-> Some(FileSystemStats(The(o.res)))]

(* exists: the boolean handed on for the result of stat *)
exists(r) == IF r.err # Null THEN FALSE ELSE TRUE

(* Faulty variant: the `return` after the error callback is missing. *)
readFile_onRead_noReturn(c, o) ==
    LET c1 == [c EXCEPT !.wait = @ \ {"read"}]
        c2 == IF o.err # NoErr
              THEN Invoke(c1, Args(1, _mapError(o.err), None, None, <<>>, <<>>), FALSE)
              ELSE c1
    IN  IF c2.done
        THEN Invoke(c2, Args(3, c2.rerr, IF c2.rerr # Null THEN None ELSE o.res,
                             c2.rstat, <<>>, <<>>), FALSE)
        ELSE [c2 EXCEPT !.done = TRUE, !.rdata = o.res]

(* Faulty variant: a recorded stat error is reported in place of the read error. *)
readFile_onRead_statErrorFirst(c, o) ==
    LET c1 == [c EXCEPT !.wait = @ \ {"read"}]
    IN  IF o.err # NoErr /\ ~(c1.done /\ c1.rerr # Null)
        THEN Invoke(c1, Args(1, _mapError(o.err), None, None, <<>>, <<>>), FALSE)
        ELSE IF c1.done
        THEN Invoke(c1, Args(3, c1.rerr, IF c1.rerr # Null THEN None ELSE o.res,
                             c1.rstat, <<>>, <<>>), FALSE)
        ELSE [c1 EXCEPT !.done = TRUE, !.rdata = o.res]

(* readFile: completion of _fs.readFile *)
readFile_onRead(c, o) ==
    LET c1 == [c EXCEPT !.wait = @ \ {"read"}]
    IN  IF o.err # NoErr
        THEN Invoke(c1, Args(1, _mapError(o.err), None, None, <<>>, <<>>), FALSE)
        ELSE IF c1.done
        THEN Invoke(c1, Args(3, c1.rerr, IF c1.rerr # Null THEN None ELSE o.res,
                             c1.rstat, <<>>, <<>>), FALSE)
        ELSE [c1 EXCEPT !.done = TRUE, !.rdata = o.res]

(* Faulty variant: a stat error is reported at once, as a read error is. *)
readFile_onStat_failFast(c, o) ==
    LET c1 == [c EXCEPT !.wait = @ \ {"stat"}]
        r == stat(o)
    IN  IF r.err # Null
        THEN Invoke([c1 EXCEPT !.done = TRUE], Args(1, r.err, None, None, <<>>, <<>>), FALSE)
        ELSE IF c1.done
        THEN Invoke(c1, Args(3, r.err, c1.rdata, r.stat, <<>>, <<>>), FALSE)
        ELSE [c1 EXCEPT !.done = TRUE, !.rstat = r.stat, !.rerr = r.err]

(* Faulty variant: the stat's error is dropped when the stat finishes last. *)
readFile_onStat_ignoreErr(c, o) ==
    LET c1 == [c EXCEPT !.wait = @ \ {"stat"}]
        r == stat(o)
    IN  IF c1.done
        THEN Invoke(c1, Args(3, Null, c1.rdata, r.stat, <<>>, <<>>), FALSE)
        ELSE [c1 EXCEPT !.done = TRUE, !.rstat = r.stat, !.rerr = r.err]

(* readFile: completion of exports.stat *)
readFile_onStat(c, o) ==
    LET c1 == [c EXCEPT !.wait = @ \ {"stat"}]
        r == stat(o)
    IN  IF c1.done
        THEN Invoke(c1, Args(3, r.err, IF r.err # Null THEN None ELSE c1.rdata,
                             r.stat, <<>>, <<>>), FALSE)
        ELSE [c1 EXCEPT !.done = TRUE, !.rstat = r.stat, !.rerr = r.err]

(* stats[idx] = err || stat *)
Slot(r) == IF r.err # Null THEN [err |-> r.err, stat |-> None]
           ELSE [err |-> Null, stat |-> r.stat]

(* Faulty variant: the test for an empty directory is missing. *)
readdir_onList_noEmptyCase(c, o) ==
    LET c1 == [c EXCEPT !.wait = @ \ {"list"}]
    IN  IF o.err # NoErr
        THEN Invoke(c1, Args(1, _mapError(o.err), None, None, <<>>, <<>>), FALSE)
        ELSE LET contents == The(o.res)
                 count == Len(contents)
             IN  [c1 EXCEPT !.contents = contents, !.count = count,
                            !.waitIdx = 1..count]

(* readdir: completion of _fs.readdir *)
readdir_onList(c, o) ==
    LET c1 == [c EXCEPT !.wait = @ \ {"list"}]
    IN  IF o.err # NoErr
        THEN Invoke(c1, Args(1, _mapError(o.err), None, None, <<>>, <<>>), FALSE)
        ELSE LET contents == The(o.res)
                 count == Len(contents)
             IN  IF count = 0
                 THEN Invoke(c1, Args(3, Null, None, None, <<>>, <<>>), FALSE)
                 ELSE [c1 EXCEPT !.contents = contents, !.count = count,
                                 !.waitIdx = 1..count]

(* path + "/" + val *)
EntryPath(c, idx) == c.path \o <<"/">> \o c.contents[idx]

(* Faulty variant: the outcome is stored in the next free slot (push). *)
readdir_onStat_push(c, idx, o) ==
    LET c1 == [c EXCEPT !.waitIdx = @ \ {idx},
                        !.stats = ((Cardinality(DOMAIN @) + 1) :> Slot(stat(o))) @@ @,
                        !.count = @ - 1]
    IN  IF c1.count <= 0
        THEN Invoke(c1, Args(3, Null, None, None, c1.contents, c1.stats), FALSE)
        ELSE c1

(* Faulty variant: the barrier opens one completion early (count <= 1). *)
readdir_onStat_early(c, idx, o) ==
    LET c1 == [c EXCEPT !.waitIdx = @ \ {idx},
                        !.stats = (idx :> Slot(stat(o))) @@ @,
                        !.count = @ - 1]
    IN  IF c1.count <= 1
        THEN Invoke(c1, Args(3, Null, None, None, c1.contents, c1.stats), FALSE)
        ELSE c1

(* readdir: completion of the stat issued for contents[idx] *)
readdir_onStat(c, idx, o) ==
    LET c1 == [c EXCEPT !.waitIdx = @ \ {idx},
                        !.stats = (idx :> Slot(stat(o))) @@ @,
                        !.count = @ - 1]
    IN  IF c1.count <= 0
        THEN Invoke(c1, Args(3, Null, None, None, c1.contents, c1.stats), FALSE)
        ELSE c1

(* writeFile: the callback given to exists *)
writeFile_onExists(c, o) ==
    [c EXCEPT !.wait = {"write"}, !.alreadyExists = exists(stat(o))]

(* Faulty variant: the error is reported and the re-stat is made all the same. *)
writeFile_onWrite_statAnyway(c, o) ==
    IF o.err # NoErr
    THEN Invoke([c EXCEPT !.wait = {"restat"}],
                Args(1, _mapError(o.err), None, None, <<>>, <<>>), FALSE)
    ELSE [c EXCEPT !.wait = {"restat"}]

(* writeFile: completion of _fs.writeFile *)
writeFile_onWrite(c, o) ==
    IF o.err # NoErr
    THEN Invoke([c EXCEPT !.wait = {}], Args(1, _mapError(o.err), None, None, <<>>, <<>>), FALSE)
    ELSE [c EXCEPT !.wait = {"restat"}]

(* Faulty variant: the test of alreadyExists is inverted. *)
writeFile_onStat_inverted(c, o, threw) ==
    LET r == stat(o)
        c1 == Invoke([c EXCEPT !.wait = {}], Args(2, r.err, None, r.stat, <<>>, <<>>), threw)
    IN  IF ~c1.alreadyExists
        THEN Emit(c1, c1.path, r.stat)
        ELSE Emit(c1, _parentPath(c1.path), None)

(* Faulty variant: the signal is a statement after the callback, not a finally. *)
writeFile_onStat_noFinally(c, o, threw) ==
    LET r == stat(o)
        c1 == Invoke([c EXCEPT !.wait = {}], Args(2, r.err, None, r.stat, <<>>, <<>>), threw)
    IN  IF threw THEN c1
        ELSE IF c1.alreadyExists
        THEN Emit(c1, c1.path, r.stat)
        ELSE Emit(c1, _parentPath(c1.path), None)

(* writeFile: completion of the stat made after the write; try / finally *)
writeFile_onStat(c, o, threw) ==
    LET r == stat(o)
        c1 == Invoke([c EXCEPT !.wait = {}], Args(2, r.err, None, r.stat, <<>>, <<>>), threw)
    IN  IF c1.alreadyExists
        THEN Emit(c1, c1.path, r.stat)
        ELSE Emit(c1, _parentPath(c1.path), None)

(* mkdir: completion of _fs.mkdir *)
mkdir_onMkdir(c, o) ==
    IF o.err # NoErr
    THEN Invoke([c EXCEPT !.wait = {}], Args(1, _mapError(o.err), None, None, <<>>, <<>>), FALSE)
    ELSE [c EXCEPT !.wait = {"restat"}]

(* mkdir: completion of the stat made after the mkdir; try / finally *)
mkdir_onStat(c, o, threw) ==
    LET r == stat(o)
        c1 == Invoke([c EXCEPT !.wait = {}], Args(2, r.err, None, r.stat, <<>>, <<>>), threw)
    IN  Emit(c1, _parentPath(c1.path), None)

(* unlink: completion of _fs.unlink; try / finally *)
unlink_onUnlink(c, o, threw) ==
    LET c1 == Invoke([c EXCEPT !.wait = {}], Args(1, _mapError(o.err), None, None, <<>>, <<>>), threw)
    IN  Emit(c1, _parentPath(c1.path), None)

(* moveToTrash: completion of appshell.fs.moveToTrash; try / finally *)
moveToTrash_onDone(c, o, threw) ==
    LET c1 == Invoke([c EXCEPT !.wait = {}], Args(1, _mapError(o.err), None, None, <<>>, <<>>), threw)
    IN  Emit(c1, _parentPath(c1.path), None)

(* _wrap(cb): the first argument is translated, the others are handed on *)
_wrap(c, err) ==
    Invoke(c, Args(1, _mapError(err), None, None, <<>>, <<>>), FALSE)

(* rename: completion of appshell.fs.mv, which is _wrap(callback) *)
rename_onDone(c, o) == _wrap([c EXCEPT !.wait = {}], o.err)

(* Faulty variant: a failed stat is not reported. *)
stat_onStat_silentOnError(c, o) ==
    LET r == stat(o)
    IN  IF o.err # NoErr
        THEN [c EXCEPT !.wait = {}]
        ELSE Invoke([c EXCEPT !.wait = {}], Args(2, Null, None, r.stat, <<>>, <<>>), FALSE)

(* stat: completion of _fs.stat for a call of stat *)
stat_onStat(c, o) ==
    LET r == stat(o)
    IN  IF o.err # NoErr
        THEN Invoke([c EXCEPT !.wait = {}], Args(1, r.err, None, None, <<>>, <<>>), FALSE)
        ELSE Invoke([c EXCEPT !.wait = {}], Args(2, Null, None, r.stat, <<>>, <<>>), FALSE)

(* Faulty variant: a failed stat leaves the caller of exists without an answer. *)
exists_onStat_silentOnError(c, o) ==
    IF exists(stat(o))
    THEN Invoke([c EXCEPT !.wait = {}],
                [Args(1, Null, None, None, <<>>, <<>>) EXCEPT !.err = "true"], FALSE)
    ELSE [c EXCEPT !.wait = {}]

(* exists: the callback given to stat; the one argument is a boolean, kept *)
(* in the first slot of the arguments as "true" or "false".                *)
exists_onStat(c, o) ==
    Invoke([c EXCEPT !.wait = {}],
           [Args(1, Null, None, None, <<>>, <<>>) EXCEPT
               !.err = IF exists(stat(o)) THEN "true" ELSE "false"], FALSE)

(* The watcher entry points work on the module's variables; their bodies  *)
(* are empty.                                                              *)
Adapter == [changeCallback |-> changeCallback, focusHandlers |-> focusHandlers]

watchPath(a, path) == a

unwatchPath(a, path) == a

(* Faulty variant: unwatchAll forgets the listener. *)
unwatchAll_forgetsListener(a) == [a EXCEPT !.changeCallback = NoListener]

unwatchAll(a) == a

----------------------------------------------------------------------------
(* The state machine *)

(* A store that holds a file at each path of S. *)
StoreOf(S) ==
    [n \in NodePaths |->
        IF n \notin S THEN None
        ELSE IF n = Normalize(PathAB) THEN Some(FileNode(<<"x">>, 0))
        ELSE Some(FileNode(<<"z", "z", "z">>, 0))]

InitWith(stores) ==
    /\ fs \in stores
    /\ changeCallback = NoListener
    /\ focusHandlers = <<>>
    /\ calls = <<>>
    /\ delivered = <<>>
    /\ now = 0
    /\ watched = <<>>
    /\ focused = 0
    /\ inits = None

(* _fs: undefined until init, then the FileSystem object the last init    *)
(* made on the store "local".                                              *)
_fs == IF inits = None THEN NoFs ELSE "local"

(* A call whose first statement reads a property of _fs: while _fs is     *)
(* undefined that throws TypeError to the caller and nothing is issued.    *)
Issue(c) == IF _fs = NoFs THEN [c EXCEPT !.wait = {}, !.error = "TypeError"] ELSE c

(* A completion function that calls _changeCallback while no listener is  *)
(* registered throws TypeError to the driver.                              *)
Uncaught(old, new) ==
    IF Len(new.sigs) > Len(old.sigs) /\ changeCallback = NoListener
    THEN [new EXCEPT !.error = "TypeError"] ELSE new

(* The listener invocations made so far with null, the wholesale change. *)
WholesaleCount == Len(SelectSeq(delivered, LAMBDA d : d.path = Wholesale))

(* Faulty variant: once a wholesale change was reported, the signals of    *)
(* the calls are dropped.                                                  *)
Deliveries_dropAfterWholesale(i, old, new) ==
    IF changeCallback = NoListener \/ WholesaleCount > 0 THEN <<>>
    ELSE [k \in 1..(Len(new.sigs) - Len(old.sigs)) |->
            [listener |-> changeCallback, call |-> i, focus |-> 0, time |-> now,
             path |-> new.sigs[Len(old.sigs) + k].path,
             stat |-> new.sigs[Len(old.sigs) + k].stat]]

(* The listener invocations made by the signals a turn added to call i. *)
Deliveries(i, old, new) ==
    IF changeCallback = NoListener THEN <<>>
    ELSE
    [k \in 1..(Len(new.sigs) - Len(old.sigs)) |->
        [listener |-> changeCallback, call |-> i, focus |-> 0, time |-> now,
         path |-> new.sigs[Len(old.sigs) + k].path,
         stat |-> new.sigs[Len(old.sigs) + k].stat]]

(* One turn of the scheduler: the driver answers primitive prim of call i *)
(* with outcome o, and the completion function leaves the closure as c.   *)
Turn(i, c, prim, idx, o) ==
    /\ calls' = [calls EXCEPT ![i] =
                    [Uncaught(calls[i], c) EXCEPT
                               !.log = Append(@, [prim |-> prim, idx |-> idx, arg |-> o.arg,
                                                 err |-> o.err, res |-> o.res])]]
    /\ fs' = o.store
    /\ delivered' = delivered \o Deliveries(i, calls[i], c)
    /\ UNCHANGED <<changeCallback, focusHandlers, now, watched, focused, inits>>

(* A call of the adapter is made; the exported functions can be called at *)
(* any time.                                                               *)
CanCall == Len(calls) < MaxCalls

Begin(c) == Append(calls, c)

(* init(callback): _fs is assigned a new FileSystem object on the store   *)
(* "local"; the callback, when one is given, is called.                    *)
InitFileSystem ==
    \E callback \in BOOLEAN :
        /\ inits' = Some(callback)
        /\ UNCHANGED <<fs, changeCallback, focusHandlers, calls, delivered, now, watched, focused>>

(* initWatchers(callback), as FileSystem calls it once when it adopts the adapter *)
InitWatchers ==
    /\ changeCallback = NoListener
    /\ changeCallback' = FirstListener
    /\ focusHandlers' = Append(focusHandlers, FirstListener)
    /\ UNCHANGED <<fs, calls, delivered, now, watched, focused, inits>>

(* initWatchers(callback) called a second time, with another listener *)
ReplaceListener ==
    /\ changeCallback = FirstListener
    /\ changeCallback' = SecondListener
    /\ focusHandlers' = Append(focusHandlers, SecondListener)
    /\ UNCHANGED <<fs, calls, delivered, now, watched, focused, inits>>

(* The window is focused: every handler registered on "focus" calls the    *)
(* callback it was registered with, with null.                             *)
Focus ==
    /\ focused < MaxFocus
    /\ focusHandlers # <<>>
    /\ focused' = focused + 1
    /\ delivered' = delivered \o
            [k \in DOMAIN focusHandlers |->
                [listener |-> focusHandlers[k], call |-> 0, focus |-> focused + 1,
                 time |-> now, path |-> Wholesale, stat |-> None]]
    /\ UNCHANGED <<fs, changeCallback, focusHandlers, calls, now, watched, inits>>

Tick ==
    /\ now < MaxTicks * TickMs
    /\ now' = now + TickMs
    /\ UNCHANGED <<fs, changeCallback, focusHandlers, calls, delivered, watched, focused, inits>>

(* A call of one of the watcher entry points leaves the adapter as a. *)
Watched(op, path, a) ==
    /\ Len(watched) < MaxWatch
    /\ changeCallback' = a.changeCallback
    /\ focusHandlers' = a.focusHandlers
    /\ watched' = Append(watched, [op |-> op, path |-> path, at |-> Len(delivered)])
    /\ UNCHANGED <<fs, calls, delivered, now, focused, inits>>

WatchPath == \E p \in WatchPaths : Watched("watchPath", p, watchPath(Adapter, p))

UnwatchPath == \E p \in WatchPaths : Watched("unwatchPath", p, unwatchPath(Adapter, p))

UnwatchAll == Watched("unwatchAll", <<>>, unwatchAll(Adapter))

CallReadFile ==
    \E p \in FilePaths :
        /\ CanCall
        /\ calls' = Begin(Issue(NewCall("readFile", p, <<>>, {"read", "stat"})))
        /\ UNCHANGED <<fs, changeCallback, focusHandlers, delivered, now, watched, focused, inits>>

CallReaddir ==
    \E p \in DirPaths :
        /\ CanCall
        /\ calls' = Begin(Issue(NewCall("readdir", p, <<>>, {"list"})))
        /\ UNCHANGED <<fs, changeCallback, focusHandlers, delivered, now, watched, focused, inits>>

CallWriteFile ==
    \E p \in FilePaths, d \in Datas :
        /\ CanCall
        /\ calls' = Begin(Issue(NewCall("writeFile", p, d, {"exists"})))
        /\ UNCHANGED <<fs, changeCallback, focusHandlers, delivered, now, watched, focused, inits>>

CallMkdir ==
    \E p \in MkdirPaths :
        /\ CanCall
        /\ calls' = Begin(Issue(NewCall("mkdir", p, <<>>, {"mkdir"})))
        /\ UNCHANGED <<fs, changeCallback, focusHandlers, delivered, now, watched, focused, inits>>

CallUnlink ==
    \E p \in FilePaths :
        /\ CanCall
        /\ calls' = Begin(Issue(NewCall("unlink", p, <<>>, {"unlink"})))
        /\ UNCHANGED <<fs, changeCallback, focusHandlers, delivered, now, watched, focused, inits>>

CallMoveToTrash ==
    \E p \in FilePaths :
        /\ CanCall
        /\ calls' = Begin(NewCall("moveToTrash", p, <<>>, {"trash"}))
        /\ UNCHANGED <<fs, changeCallback, focusHandlers, delivered, now, watched, focused, inits>>

CallStat ==
    \E p \in FilePaths :
        /\ CanCall
        /\ calls' = Begin(Issue(NewCall("stat", p, <<>>, {"stat"})))
        /\ UNCHANGED <<fs, changeCallback, focusHandlers, delivered, now, watched, focused, inits>>

CallExists ==
    \E p \in FilePaths :
        /\ CanCall
        /\ calls' = Begin(Issue(NewCall("exists", p, <<>>, {"stat"})))
        /\ UNCHANGED <<fs, changeCallback, focusHandlers, delivered, now, watched, focused, inits>>

CallRename ==
    \E p \in FilePaths, q \in FilePaths :
        /\ p # q
        /\ CanCall
        /\ calls' = Begin(NewCall("rename", p, q, {"mv"}))
        /\ UNCHANGED <<fs, changeCallback, focusHandlers, delivered, now, watched, focused, inits>>

Waiting(i, op, w) == calls[i].op = op /\ w \in calls[i].wait

ReadFile_onRead ==
    \E i \in DOMAIN calls : /\ Waiting(i, "readFile", "read")
        /\ \E o \in DrvReadFile(fs, calls[i].path) : Turn(i, readFile_onRead(calls[i], o), "read", 0, o)

ReadFile_onStat ==
    \E i \in DOMAIN calls : /\ Waiting(i, "readFile", "stat")
        /\ \E o \in DrvStat(fs, calls[i].path) : Turn(i, readFile_onStat(calls[i], o), "stat", 0, o)

Readdir_onList ==
    \E i \in DOMAIN calls : /\ Waiting(i, "readdir", "list")
        /\ \E o \in DrvReaddir(fs, calls[i].path) : Turn(i, readdir_onList(calls[i], o), "list", 0, o)

Readdir_onStat ==
    \E i \in DOMAIN calls : /\ calls[i].op = "readdir"
        /\ \E idx \in calls[i].waitIdx : \E o \in DrvStat(fs, EntryPath(calls[i], idx)) :
              Turn(i, readdir_onStat(calls[i], idx, o), "entry", idx, o)

WriteFile_onExists ==
    \E i \in DOMAIN calls : /\ Waiting(i, "writeFile", "exists")
        /\ \E o \in DrvStat(fs, calls[i].path) :
              Turn(i, [writeFile_onExists(calls[i], o) EXCEPT
                          !.checked = Some(Present(fs, Normalize(calls[i].path)))], "exists", 0, o)

WriteFile_onWrite ==
    \E i \in DOMAIN calls : /\ Waiting(i, "writeFile", "write")
        /\ \E o \in DrvWriteFile(fs, calls[i].path, calls[i].data, now) :
              Turn(i, [writeFile_onWrite(calls[i], o) EXCEPT
                          !.existed = Some(Present(fs, Normalize(calls[i].path)))], "write", 0, o)

WriteFile_onStat ==
    \E i \in DOMAIN calls : /\ Waiting(i, "writeFile", "restat")
        /\ \E o \in DrvStat(fs, calls[i].path), threw \in BOOLEAN :
              Turn(i, writeFile_onStat(calls[i], o, threw), "restat", 0, o)

Mkdir_onMkdir ==
    \E i \in DOMAIN calls : /\ Waiting(i, "mkdir", "mkdir")
        /\ \E o \in DrvMkdir(fs, calls[i].path, now) : Turn(i, mkdir_onMkdir(calls[i], o), "mkdir", 0, o)

Mkdir_onStat ==
    \E i \in DOMAIN calls : /\ Waiting(i, "mkdir", "restat")
        /\ \E o \in DrvStat(fs, calls[i].path), threw \in BOOLEAN :
              Turn(i, mkdir_onStat(calls[i], o, threw), "restat", 0, o)

Unlink_onUnlink ==
    \E i \in DOMAIN calls : /\ Waiting(i, "unlink", "unlink")
        /\ \E o \in DrvUnlink(fs, calls[i].path), threw \in BOOLEAN :
              Turn(i, unlink_onUnlink(calls[i], o, threw), "unlink", 0, o)

MoveToTrash_onDone ==
    \E i \in DOMAIN calls : /\ Waiting(i, "moveToTrash", "trash")
        /\ \E o \in ShellMoveToTrash(fs, calls[i].path), threw \in BOOLEAN :
              Turn(i, moveToTrash_onDone(calls[i], o, threw), "trash", 0, o)

Stat_onStat ==
    \E i \in DOMAIN calls : /\ Waiting(i, "stat", "stat")
        /\ \E o \in DrvStat(fs, calls[i].path) : Turn(i, stat_onStat(calls[i], o), "stat", 0, o)

Exists_onStat ==
    \E i \in DOMAIN calls : /\ Waiting(i, "exists", "stat")
        /\ \E o \in DrvStat(fs, calls[i].path) : Turn(i, exists_onStat(calls[i], o), "stat", 0, o)

Rename_onDone ==
    \E i \in DOMAIN calls : /\ Waiting(i, "rename", "mv")
        /\ \E o \in ShellMv(fs, calls[i].path, calls[i].data) :
              Turn(i, rename_onDone(calls[i], o), "mv", 0, o)

Init == InitWith({StoreOf({Normalize(PathAB)})})

Next ==
    \/ InitFileSystem \/ InitWatchers \/ Focus \/ Tick
    \/ CallReadFile \/ CallReaddir \/ CallWriteFile \/ CallMkdir \/ CallUnlink \/ CallMoveToTrash
    \/ ReadFile_onRead \/ ReadFile_onStat
    \/ Readdir_onList \/ Readdir_onStat
    \/ WriteFile_onExists \/ WriteFile_onWrite \/ WriteFile_onStat
    \/ Mkdir_onMkdir \/ Mkdir_onStat
    \/ Unlink_onUnlink \/ MoveToTrash_onDone
    \/ CallStat \/ CallExists \/ CallRename
    \/ Stat_onStat \/ Exists_onStat \/ Rename_onDone
    \/ WatchPath \/ UnwatchPath \/ UnwatchAll
    \/ ReplaceListener

(* The whole adapter; the specifications below are its parts. *)
Spec == Init /\ [][Next]_vars

(* readFile next to unlink: the join of the read and the stat. *)
NextReadFile ==
    \/ InitFileSystem \/ InitWatchers
    \/ CallReadFile \/ CallUnlink
    \/ ReadFile_onRead \/ ReadFile_onStat \/ Unlink_onUnlink

SpecReadFile == Init /\ [][NextReadFile]_vars

(* readdir next to unlink: the barrier over the entries of a directory. *)
InitReaddir == InitWith({StoreOf({Normalize(PathAB), Normalize(PathAC)}), StoreOf({})})

NextReaddir ==
    \/ InitFileSystem \/ InitWatchers
    \/ CallReaddir \/ CallUnlink
    \/ Readdir_onList \/ Readdir_onStat \/ Unlink_onUnlink

SpecReaddir == InitReaddir /\ [][NextReaddir]_vars

(* writeFile calls: the write coordinator. *)
NextWriteFile ==
    \/ InitFileSystem \/ InitWatchers
    \/ CallWriteFile
    \/ WriteFile_onExists \/ WriteFile_onWrite \/ WriteFile_onStat

SpecWriteFile == Init /\ [][NextWriteFile]_vars

(* writeFile calls that overlap each other and unlink calls. *)
NextOverlap ==
    \/ InitFileSystem \/ InitWatchers
    \/ CallWriteFile \/ CallUnlink
    \/ WriteFile_onExists \/ WriteFile_onWrite \/ WriteFile_onStat
    \/ Unlink_onUnlink

SpecOverlap == Init /\ [][NextOverlap]_vars

(* mkdir, unlink and moveToTrash: the other operations that raise signals. *)
NextRemove ==
    \/ InitFileSystem \/ InitWatchers
    \/ CallMkdir \/ CallUnlink \/ CallMoveToTrash
    \/ Mkdir_onMkdir \/ Mkdir_onStat
    \/ Unlink_onUnlink \/ MoveToTrash_onDone

SpecRemove == Init /\ [][NextRemove]_vars

(* stat and exists next to unlink: the queries of a path. *)
NextQuery ==
    \/ InitFileSystem \/ InitWatchers
    \/ CallStat \/ CallExists \/ CallUnlink
    \/ Stat_onStat \/ Exists_onStat
    \/ Unlink_onUnlink

SpecQuery == Init /\ [][NextQuery]_vars

(* Every operation that hands an error to its caller. *)
NextErrors ==
    \/ InitFileSystem \/ InitWatchers
    \/ CallStat \/ CallReaddir \/ CallMkdir \/ CallRename \/ CallReadFile
    \/ CallWriteFile \/ CallUnlink \/ CallMoveToTrash
    \/ Stat_onStat \/ Rename_onDone
    \/ ReadFile_onRead \/ ReadFile_onStat
    \/ Readdir_onList \/ Readdir_onStat
    \/ WriteFile_onExists \/ WriteFile_onWrite \/ WriteFile_onStat
    \/ Mkdir_onMkdir \/ Mkdir_onStat
    \/ Unlink_onUnlink \/ MoveToTrash_onDone

SpecErrors == Init /\ [][NextErrors]_vars

(* The watcher entry points among mkdir calls and focus events. *)
NextWatch ==
    \/ InitFileSystem \/ InitWatchers \/ Focus
    \/ CallMkdir \/ Mkdir_onMkdir \/ Mkdir_onStat
    \/ WatchPath \/ UnwatchPath \/ UnwatchAll

SpecWatch == Init /\ [][NextWatch]_vars

(* The notification path: the listeners, focus events, the clock, and the *)
(* signals of unlink calls.                                                *)
NextNotify ==
    \/ InitFileSystem \/ InitWatchers \/ ReplaceListener \/ Focus \/ Tick
    \/ CallUnlink \/ Unlink_onUnlink

SpecNotify == Init /\ [][NextNotify]_vars

(* The signals of unlink calls among focus events, without the clock. *)
NextSignals ==
    \/ InitFileSystem \/ InitWatchers \/ ReplaceListener \/ Focus
    \/ CallUnlink \/ Unlink_onUnlink

SpecSignals == Init /\ [][NextSignals]_vars

(* The adapter as FileSystem sets it up before it makes a call: init was   *)
(* called with a callback and initWatchers with the first listener.        *)
InitLive ==
    /\ fs = StoreOf({Normalize(PathAB)})
    /\ changeCallback = FirstListener
    /\ focusHandlers = <<FirstListener>>
    /\ calls = <<>>
    /\ delivered = <<>>
    /\ now = 0
    /\ watched = <<>>
    /\ focused = 0
    /\ inits = Some(TRUE)

(* The operations that answer their caller, with a driver that completes  *)
(* every primitive it was given.                                           *)
NextLive ==
    \/ CallStat \/ CallExists \/ CallReaddir \/ CallMkdir \/ CallReadFile
    \/ CallWriteFile \/ CallUnlink
    \/ Stat_onStat \/ Exists_onStat
    \/ ReadFile_onRead \/ ReadFile_onStat
    \/ Readdir_onList \/ Readdir_onStat
    \/ WriteFile_onExists \/ WriteFile_onWrite \/ WriteFile_onStat
    \/ Mkdir_onMkdir \/ Mkdir_onStat
    \/ Unlink_onUnlink

(* The driver completes a primitive that is in flight. *)
Completes ==
    \/ Stat_onStat \/ Exists_onStat
    \/ ReadFile_onRead \/ ReadFile_onStat
    \/ Readdir_onList \/ Readdir_onStat
    \/ WriteFile_onExists \/ WriteFile_onWrite \/ WriteFile_onStat
    \/ Mkdir_onMkdir \/ Mkdir_onStat
    \/ Unlink_onUnlink

SpecLive == InitLive /\ [][NextLive]_vars /\ WF_vars(Completes)

----------------------------------------------------------------------------
(* Properties.  What the driver answered is read from a call's log; what   *)
(* the caller and the listener saw is read from cb, sigs and delivered.    *)

Answered(c, prim) == \E k \in DOMAIN c.log : c.log[k].prim = prim
AnswerOf(c, prim) == c.log[CHOOSE k \in DOMAIN c.log : c.log[k].prim = prim]
Failed(c, prim) == Answered(c, prim) /\ AnswerOf(c, prim).err # NoErr
Succeeded(c, prim) == Answered(c, prim) /\ AnswerOf(c, prim).err = NoErr
Finished(c) == c.wait = {} /\ c.waitIdx = {}
(* The calls of op made on an adapter in service: made after init, and    *)
(* with a listener registered when they raised their signal.               *)
InService(c) == c.error = NoErr
CallsOf(op) == {i \in DOMAIN calls : calls[i].op = op /\ InService(calls[i])}

(* The canonical error the specification assigns to a native error. *)
Canonical(e) ==
    IF e = NoErr THEN "null"
    ELSE IF e = "ENoEntry" THEN "NotFound"
    ELSE IF e = "EExists" THEN "AlreadyExists"
    ELSE "Unknown"

(* The Stats the specification derives from the driver's stats. *)
StatsOf(res) == [isFile |-> The(res).type = "FILE", mtime |-> The(res).mtime,
                 size |-> The(res).size]

(* C1: a readFile call invokes its callback exactly once: never twice at   *)
(* any time, and once when both the read and the stat have completed,      *)
(* whatever their outcomes and their order.                                *)
C1_ReadFileExactlyOnce ==
    \A i \in CallsOf("readFile") :
        /\ Len(calls[i].cb) <= 1
        /\ Finished(calls[i]) => Len(calls[i].cb) = 1

(* Both calls failed, the stat first, and the callback has run once. *)
C1_Witness ==
    \E i \in CallsOf("readFile") :
        /\ Finished(calls[i]) /\ Len(calls[i].cb) = 1
        /\ calls[i].log[1].prim = "stat"
        /\ Failed(calls[i], "stat") /\ Failed(calls[i], "read")

(* C2: once the read of a readFile call has failed, the callback has been  *)
(* handed the read's translated error and neither data nor stats, whether  *)
(* the stat succeeded or failed, before or after the read.                 *)
C2_ReadFailureWins ==
    \A i \in CallsOf("readFile") :
        Failed(calls[i], "read") =>
            /\ Len(calls[i].cb) = 1
            /\ calls[i].cb[1].err = Canonical(AnswerOf(calls[i], "read").err)
            /\ calls[i].cb[1].data = None
            /\ calls[i].cb[1].stat = None

(* Both calls failed with different errors, the stat first. *)
C2_Witness ==
    \E i \in CallsOf("readFile") :
        /\ Finished(calls[i])
        /\ calls[i].log[1].prim = "stat"
        /\ AnswerOf(calls[i], "stat").err = "EIO"
        /\ AnswerOf(calls[i], "read").err = "ENoEntry"
        /\ calls[i].cb[1].err = "NotFound"

(* C3: a finished readFile call reports success exactly when the read and  *)
(* the stat both succeeded, and then with the read's data and the stat's   *)
(* Stats; when only the stat failed, it reports the stat's canonical error *)
(* and no data.                                                            *)
C3_SuccessIffBoth ==
    \A i \in CallsOf("readFile") :
        LET c == calls[i] IN
        Finished(c) =>
            /\ Len(c.cb) = 1
            /\ c.cb[1].err = "null" <=> (Succeeded(c, "read") /\ Succeeded(c, "stat"))
            /\ c.cb[1].err = "null" =>
                  /\ c.cb[1].data = AnswerOf(c, "read").res
                  /\ c.cb[1].data # None
                  /\ c.cb[1].stat = Some(StatsOf(AnswerOf(c, "stat").res))
            /\ (Succeeded(c, "read") /\ Failed(c, "stat")) =>
                  /\ c.cb[1].err = Canonical(AnswerOf(c, "stat").err)
                  /\ c.cb[1].data = None

(* The read succeeded first and the stat failed after it. *)
C3_Witness ==
    \E i \in CallsOf("readFile") :
        /\ Finished(calls[i])
        /\ calls[i].log[1].prim = "read"
        /\ Succeeded(calls[i], "read") /\ Failed(calls[i], "stat")
        /\ calls[i].cb[1].err # "null"

(* C4, as claimed: the callback of readFile never runs while one of the    *)
(* two underlying calls is still in flight.                                *)
C4_NeverWhileInFlight ==
    \A i \in CallsOf("readFile") :
        \A k \in DOMAIN calls[i].cb : calls[i].cb[k].inFlight = 0

(* C4, amended: the callback of readFile runs while an underlying call is  *)
(* in flight only when it is the read that failed and the stat that is     *)
(* still in flight; in every other case the first completion only records  *)
(* its outcome and the second triggers the callback.                       *)
C4_InFlightOnlyOnReadFailure ==
    \A i \in CallsOf("readFile") :
        LET c == calls[i] IN
        /\ \A k \in DOMAIN c.cb :
              c.cb[k].inFlight # 0 =>
                  /\ Failed(c, "read")
                  /\ c.log[1].prim = "read"
                  /\ c.cb[k].inFlight = 1
        /\ (Len(c.log) = 1 /\ ~Failed(c, "read")) => c.cb = <<>>

(* The read failed first: the callback has run and the stat is in flight. *)
C4_Witness ==
    \E i \in CallsOf("readFile") :
        /\ calls[i].wait = {"stat"}
        /\ Failed(calls[i], "read")
        /\ Len(calls[i].cb) = 1

(* The answer to the stat that readdir issued for entry k. *)
EntryAnswered(c, k) == \E j \in DOMAIN c.log : c.log[j].prim = "entry" /\ c.log[j].idx = k
EntryAnswer(c, k) ==
    c.log[CHOOSE j \in DOMAIN c.log : c.log[j].prim = "entry" /\ c.log[j].idx = k]
Listed(c) == The(AnswerOf(c, "list").res)

(* The slot the specification expects for an answer of the driver's stat. *)
ExpectedSlot(a) ==
    IF a.err # NoErr THEN [err |-> Canonical(a.err), stat |-> None]
    ELSE [err |-> "null", stat |-> Some(StatsOf(a.res))]

(* C5: when the enumeration of a readdir returned N >= 0 names and the     *)
(* call has finished, the callback was handed those names unchanged and a  *)
(* stats sequence of length N whose element i is the outcome of the stat   *)
(* issued for name i, in whatever order the stats completed.               *)
C5_ReaddirOrderPreserved ==
    \A i \in CallsOf("readdir") :
        LET c == calls[i] IN
        (Finished(c) /\ Succeeded(c, "list")) =>
            /\ Len(c.cb) = 1
            /\ c.cb[1].names = Listed(c)
            /\ DOMAIN c.cb[1].stats = 1..Len(Listed(c))
            /\ \A k \in 1..Len(Listed(c)) :
                  /\ EntryAnswered(c, k)
                  /\ EntryAnswer(c, k).arg = c.path \o <<"/">> \o Listed(c)[k]
                  /\ c.cb[1].stats[k] = ExpectedSlot(EntryAnswer(c, k))

(* Two entries, the second answered first, with different outcomes. *)
C5_Witness ==
    \E i \in CallsOf("readdir") :
        LET c == calls[i] IN
        /\ Finished(c) /\ Succeeded(c, "list") /\ Len(Listed(c)) = 2
        /\ c.log[2].prim = "entry" /\ c.log[2].idx = 2 /\ c.log[2].err = NoErr
        /\ c.log[3].prim = "entry" /\ c.log[3].idx = 1 /\ c.log[3].err # NoErr
        /\ Len(c.cb) = 1

(* C6: when the enumeration of a readdir returned N > 0 names, the         *)
(* callback runs at most once, only when all N stats have completed, once  *)
(* they have, and with a null overall error however many of them failed;   *)
(* each slot holds a Stats value or one of the canonical errors.           *)
C6_ReaddirBarrier ==
    \A i \in CallsOf("readdir") :
        LET c == calls[i] IN
        (Succeeded(c, "list") /\ Len(Listed(c)) > 0) =>
            /\ Len(c.cb) <= 1
            /\ c.cb # <<>> => \A k \in 1..Len(Listed(c)) : EntryAnswered(c, k)
            /\ \A j \in DOMAIN c.cb :
                  /\ c.cb[j].inFlight = 0
                  /\ c.cb[j].err = "null"
                  /\ \A k \in DOMAIN c.cb[j].stats :
                        LET slot == c.cb[j].stats[k] IN
                        \/ slot.err = "null" /\ slot.stat # None /\ EntryAnswer(c, k).err = NoErr
                        \/ /\ slot.err \in {"NotFound", "AlreadyExists", "Unknown"}
                           /\ slot.stat = None
                           /\ EntryAnswer(c, k).err # NoErr
            /\ Finished(c) => Len(c.cb) = 1

(* Two entries, both stats failed, and the callback ran with a null error. *)
C6_Witness ==
    \E i \in CallsOf("readdir") :
        LET c == calls[i] IN
        /\ Finished(c) /\ Succeeded(c, "list") /\ Len(Listed(c)) = 2
        /\ EntryAnswer(c, 1).err # NoErr /\ EntryAnswer(c, 2).err # NoErr
        /\ Len(c.cb) = 1 /\ c.cb[1].err = "null"

(* The containing directory of a path: the prefix that ends with a slash   *)
(* and is followed by one non-empty name, itself optionally followed by a  *)
(* slash.                                                                  *)
ParentDir(p) ==
    SubSeq(p, 1, CHOOSE k \in 1..Len(p) :
        LET rest == SubSeq(p, k + 1, Len(p))
            name == IF rest # <<>> /\ rest[Len(rest)] = "/"
                    THEN SubSeq(rest, 1, Len(rest) - 1) ELSE rest
        IN  p[k] = "/" /\ name # <<>> /\ \A j \in DOMAIN name : name[j] # "/")

(* What the stat made after a write or a mkdir handed on. *)
RestatStat(c) ==
    IF AnswerOf(c, "restat").err = NoErr THEN Some(StatsOf(AnswerOf(c, "restat").res))
    ELSE None

(* The listener invocations that stem from call i. *)
DeliveredFor(i) == SelectSeq(delivered, LAMBDA d : d.call = i)

(* C7: a writeFile whose raw write succeeded raises the signal that its    *)
(* existence check decides: for the parent directory, and not for the path *)
(* itself, when the check found nothing; for the exact path, with the      *)
(* stats of the re-stat, when the check found the path.  The check finds   *)
(* the path whenever the store holds it and the driver does not fault.     *)
C7_SignalFollowsExistsCheck ==
    \A i \in CallsOf("writeFile") :
        LET c == calls[i] IN
        (Succeeded(c, "write") /\ Finished(c)) =>
            /\ Len(DeliveredFor(i)) = 1
            /\ Failed(c, "exists") =>
                  /\ DeliveredFor(i)[1].path = ParentDir(c.path)
                  /\ DeliveredFor(i)[1].path # c.path
                  /\ DeliveredFor(i)[1].stat = None
            /\ Succeeded(c, "exists") =>
                  /\ DeliveredFor(i)[1].path = c.path
                  /\ DeliveredFor(i)[1].stat = RestatStat(c)
            /\ (c.checked = Some(TRUE) /\ AnswerOf(c, "exists").err # "EIO")
                  => DeliveredFor(i)[1].path = c.path
            /\ c.checked = Some(FALSE) => DeliveredFor(i)[1].path = ParentDir(c.path)

(* /a/c did not exist; it was written, and written again after that: the  *)
(* listener saw a signal for /a/ and then a signal for /a/c.               *)
C7_Witness ==
    /\ Len(calls) = 2
    /\ \A i \in 1..2 : calls[i].op = "writeFile" /\ calls[i].path = PathAC /\ Finished(calls[i])
    /\ Len(delivered) = 2
    /\ delivered[1].call = 1 /\ delivered[1].path = PathA /\ delivered[1].stat = None
    /\ delivered[2].call = 2 /\ delivered[2].path = PathAC /\ delivered[2].stat # None

(* C9: a writeFile whose raw write succeeded calls the caller back with    *)
(* the outcome of the re-stat and then raises exactly one signal, also     *)
(* when the callback throws and when the re-stat fails; before the re-stat *)
(* has completed it does neither.                                          *)
C9_CallbackThenOneSignal ==
    \A i \in CallsOf("writeFile") :
        LET c == calls[i] IN
        Succeeded(c, "write") =>
            IF Answered(c, "restat")
            THEN /\ Len(c.cb) = 1
                 /\ c.cb[1].err = Canonical(AnswerOf(c, "restat").err)
                 /\ c.cb[1].stat = RestatStat(c)
                 /\ Len(c.sigs) = 1
                 /\ c.sigs[1].afterCb = 1
                 /\ Len(DeliveredFor(i)) = 1
            ELSE c.cb = <<>> /\ c.sigs = <<>> /\ DeliveredFor(i) = <<>>

(* The re-stat failed and the callback threw: one signal all the same. *)
C9_Witness ==
    \E i \in CallsOf("writeFile") :
        LET c == calls[i] IN
        /\ Succeeded(c, "write") /\ Failed(c, "restat")
        /\ Len(c.cb) = 1 /\ c.cb[1].threw
        /\ Len(DeliveredFor(i)) = 1

(* C10: mkdir and unlink raise a signal for the parent directory once the  *)
(* primitive call has completed, whether it succeeded or failed, so that   *)
(* the listener is told of an operation whose caller was handed an error.  *)
(* Looked at once a listener is registered.                                *)
C10_SignalOnSuccessAndFailure ==
    changeCallback # NoListener =>
        \A i \in CallsOf("mkdir") \cup CallsOf("unlink") :
            LET c == calls[i] IN
            Finished(c) =>
                /\ Len(c.sigs) = 1
                /\ c.sigs[1].path = ParentDir(c.path)

(* C8: two invocations of the listener for the same path are never less    *)
(* than one batching window apart: the signals raised for a path within a  *)
(* window reach the listener as one invocation.                            *)
C8_OneInvocationPerWindow ==
    \A j, k \in DOMAIN delivered :
        (j < k /\ delivered[j].path = delivered[k].path
               /\ delivered[j].listener = delivered[k].listener)
            => delivered[k].time - delivered[j].time >= FILE_WATCHER_BATCH_TIMEOUT

(* C11: when the raw write of a writeFile fails, the caller is called back *)
(* exactly once, with the translated error alone; no stat is issued after  *)
(* the write and no signal is raised, whether the path existed or not.     *)
C11_WriteFailureStopsThere ==
    \A i \in CallsOf("writeFile") :
        LET c == calls[i] IN
        Failed(c, "write") =>
            /\ Finished(c)
            /\ Len(c.cb) = 1
            /\ c.cb[1].err = Canonical(AnswerOf(c, "write").err)
            /\ c.cb[1].nargs = 1 /\ c.cb[1].stat = None
            /\ ~Answered(c, "restat")
            /\ c.log[Len(c.log)].prim = "write"
            /\ c.sigs = <<>>
            /\ DeliveredFor(i) = <<>>

(* The raw write failed for a path that existed and for one that did not. *)
C11_Witness ==
    \E i, j \in CallsOf("writeFile") :
        /\ Failed(calls[i], "write") /\ calls[i].alreadyExists
        /\ Failed(calls[j], "write") /\ ~calls[j].alreadyExists
        /\ Len(calls[i].cb) = 1 /\ Len(calls[j].cb) = 1

(* C12: exists calls its caller back exactly once, with one argument that  *)
(* is a boolean and never an error: true when the stat succeeded, false    *)
(* when the stat failed, whatever the failure.                             *)
C12_ExistsOneBoolean ==
    \A i \in CallsOf("exists") :
        LET c == calls[i] IN
        /\ Len(c.cb) <= 1
        /\ Answered(c, "stat") <=> Len(c.cb) = 1
        /\ Len(c.cb) = 1 =>
              /\ c.cb[1].nargs = 1
              /\ c.cb[1].err \in {"true", "false"}
              /\ c.cb[1].err = "true" <=> Succeeded(c, "stat")
              /\ c.cb[1].err = "false" <=> Failed(c, "stat")
              /\ c.sigs = <<>>

(* exists answered true, false for an absent path and false for a driver   *)
(* fault on a path that is there.                                          *)
C12_Witness ==
    /\ \E i \in CallsOf("exists") :
          Len(calls[i].cb) = 1 /\ calls[i].cb[1].err = "true"
    /\ \E i \in CallsOf("exists") :
          /\ Len(calls[i].cb) = 1 /\ calls[i].cb[1].err = "false"
          /\ AnswerOf(calls[i], "stat").err \in {"ENoEntry", "EIO"}

CanonicalErrors == {"NotFound", "AlreadyExists", "Unknown"}

(* The native error an operation's callback reports: that of its first     *)
(* primitive when it failed, otherwise that of its stat.                   *)
Blamed(c) ==
    CASE c.op = "stat"        -> AnswerOf(c, "stat").err
      [] c.op = "readdir"     -> AnswerOf(c, "list").err
      [] c.op = "rename"      -> AnswerOf(c, "mv").err
      [] c.op = "unlink"      -> AnswerOf(c, "unlink").err
      [] c.op = "moveToTrash" -> AnswerOf(c, "trash").err
      [] c.op = "readFile"    -> IF Failed(c, "read") THEN AnswerOf(c, "read").err
                                 ELSE AnswerOf(c, "stat").err
      [] c.op = "mkdir"       -> IF Failed(c, "mkdir") THEN AnswerOf(c, "mkdir").err
                                 ELSE AnswerOf(c, "restat").err
      [] c.op = "writeFile"   -> IF Failed(c, "write") THEN AnswerOf(c, "write").err
                                 ELSE AnswerOf(c, "restat").err

(* C13: every error handed to a caller by stat, readdir (as the overall    *)
(* error and in the per-entry slots), mkdir, rename, readFile, writeFile,  *)
(* unlink and moveToTrash is null or one of NotFound, AlreadyExists,       *)
(* Unknown, never the native error: no error gives null, the driver's      *)
(* "not found" NotFound, its "exists" AlreadyExists, any other Unknown.    *)
C13_ErrorsAreCanonical ==
    \A i \in DOMAIN calls :
        LET c == calls[i] IN
        c.op # "exists" =>
            \A k \in DOMAIN c.cb :
                /\ c.cb[k].err \in CanonicalErrors \cup {"null"}
                /\ c.cb[k].err = Canonical(Blamed(c))
                /\ \A j \in DOMAIN c.cb[k].stats :
                      /\ c.cb[k].stats[j].err \in CanonicalErrors \cup {"null"}
                      /\ c.cb[k].stats[j].err = Canonical(EntryAnswer(c, j).err)

(* A readdir handed over a slot that holds Unknown for a driver fault, and *)
(* another operation handed over AlreadyExists for the driver's "exists".  *)
C13_Witness ==
    /\ \E i \in CallsOf("readdir") : \E k \in DOMAIN calls[i].cb :
          \E j \in DOMAIN calls[i].cb[k].stats :
              /\ calls[i].cb[k].stats[j].err = "Unknown"
              /\ EntryAnswer(calls[i], j).err = "EIO"
    /\ \E i \in DOMAIN calls : \E k \in DOMAIN calls[i].cb :
          /\ calls[i].cb[k].err = "AlreadyExists"
          /\ Blamed(calls[i]) = "EExists"

EntriesAnswered(c) == {k \in DOMAIN c.log : c.log[k].prim = "entry"}

(* C14: when the enumeration of a readdir fails, the callback is called    *)
(* exactly once with the translated error and no stat is issued for any    *)
(* entry; when it returns no name, the callback is called exactly once, in *)
(* the same turn, with a null error and two empty sequences, and no stat   *)
(* is issued; besides the completion of all N stats these are the only     *)
(* cases in which the callback of readdir is called.                       *)
C14_ReaddirFailureAndEmpty ==
    \A i \in CallsOf("readdir") :
        LET c == calls[i] IN
        /\ Failed(c, "list") =>
              /\ Finished(c) /\ Len(c.log) = 1
              /\ Len(c.cb) = 1
              /\ c.cb[1].nargs = 1
              /\ c.cb[1].err = Canonical(AnswerOf(c, "list").err)
        /\ (Succeeded(c, "list") /\ Listed(c) = <<>>) =>
              /\ Finished(c) /\ Len(c.log) = 1
              /\ Len(c.cb) = 1
              /\ c.cb[1].nargs = 3
              /\ c.cb[1].err = "null"
              /\ c.cb[1].names = <<>> /\ c.cb[1].stats = <<>>
        /\ c.cb # <<>> =>
              \/ Failed(c, "list")
              \/ Succeeded(c, "list") /\ Listed(c) = <<>>
              \/ /\ Succeeded(c, "list")
                 /\ Cardinality(EntriesAnswered(c)) = Len(Listed(c))

(* One readdir whose enumeration failed and one of an empty directory. *)
C14_Witness ==
    \E i, j \in CallsOf("readdir") :
        /\ Failed(calls[i], "list") /\ Len(calls[i].cb) = 1
        /\ Succeeded(calls[j], "list") /\ Listed(calls[j]) = <<>>
        /\ Len(calls[j].cb) = 1 /\ calls[j].cb[1].nargs = 3

(* C15: a call of watchPath, unwatchPath or unwatchAll changes nothing of  *)
(* the adapter: the listener, the focus handlers, the calls in progress,   *)
(* the driver's store and the listener invocations made so far are as      *)
(* before, so the invocations that follow are those that would have        *)
(* followed without the call.                                              *)
C15_WatchersChangeNothing ==
    [][watched' # watched =>
          UNCHANGED <<fs, changeCallback, focusHandlers, calls, delivered, now, focused, inits>>]_vars

(* Watcher calls were made before the first listener invocation and        *)
(* between two of them, one from a mkdir and one from a focus event.       *)
C15_Witness ==
    /\ Len(watched) = 2
    /\ watched[1].at = 0 /\ watched[2].at = 1
    /\ watched[2].op = "unwatchAll"
    /\ Len(delivered) = 2
    /\ \E k \in DOMAIN delivered : delivered[k].path = Wholesale
    /\ \E k \in DOMAIN delivered : delivered[k].path = PathA

(* C16: the notification path is a machine of two states: a signal raised *)
(* in Idle arms the timer of the window and never invokes the listener in  *)
(* the same turn; the listener is invoked only when the window elapses,    *)
(* once per pending path, after which nothing is pending and the machine   *)
(* is Idle.  In particular the turn that raises a signal invokes no        *)
(* listener.                                                               *)
C16_SignalNeverSynchronous ==
    [][(\E i \in DOMAIN calls : Len(calls'[i].sigs) > Len(calls[i].sigs))
          => delivered' = delivered]_vars

(* C17: no signal raised after initWatchers is lost: every signal a call   *)
(* raised with a listener registered and every focus event has its         *)
(* listener invocation, with the path and stat of the signal or the        *)
(* wholesale marker, in the order of the signals; a wholesale change       *)
(* cancels none of them.                                                   *)
C17_NoSignalLost ==
    /\ \A i \in DOMAIN calls :
          LET d == DeliveredFor(i) IN
          InService(calls[i]) =>
          /\ Len(d) = Len(calls[i].sigs)
          /\ \A k \in DOMAIN d :
                /\ d[k].path = calls[i].sigs[k].path
                /\ d[k].stat = calls[i].sigs[k].stat
                /\ d[k].listener \in Listeners
    /\ \A n \in 1..focused :
          \E k \in DOMAIN delivered :
              /\ delivered[k].focus = n
              /\ delivered[k].path = Wholesale
              /\ delivered[k].listener \in Listeners

(* The signal of a call, a wholesale change, then the signal of another    *)
(* call that was in progress when the window was focused.                  *)
C17_Witness ==
    \E k1, k2, k3 \in DOMAIN delivered :
        /\ k1 < k2 /\ k2 < k3
        /\ delivered[k1].call > 0 /\ delivered[k1].path = PathA
        /\ delivered[k2].focus > 0 /\ delivered[k2].path = Wholesale
        /\ delivered[k3].call > 0 /\ delivered[k3].path = PathA
        /\ delivered[k3].call # delivered[k1].call

(* C19: exactly one listener receives the notifications: every listener    *)
(* invocation, from a call or from a focus event, is made to the listener  *)
(* registered last, a listener that was replaced is not invoked again, and *)
(* a focus event makes exactly one invocation.                             *)
C19_OnlyLatestListener ==
    [][/\ \A k \in (Len(delivered) + 1)..Len(delivered') :
              delivered'[k].listener = changeCallback
       /\ focused' # focused => Len(delivered') = Len(delivered) + 1]_vars

(* C18: when the driver completes every primitive it was given, every     *)
(* call of stat, exists, readdir, mkdir, readFile, writeFile and unlink is *)
(* eventually answered: its callback is called.  No call is withdrawn and  *)
(* no answer is taken back, so this is: from some moment on every call     *)
(* made on the adapter in service has been answered.                       *)
C18_EveryCallAnswers ==
    <>[](\A n \in DOMAIN calls : InService(calls[n]) => calls[n].cb # <<>>)

(* A readdir of a directory with an entry and a writeFile that went        *)
(* through its three primitives have both answered.                        *)
C18_Witness ==
    \E i \in CallsOf("readdir"), j \in CallsOf("writeFile") :
        /\ Succeeded(calls[i], "list") /\ Listed(calls[i]) # <<>>
        /\ calls[i].cb # <<>>
        /\ Answered(calls[j], "restat")
        /\ calls[j].cb # <<>>

(* C20: whatever the interleaving of two writeFile calls on one path, or  *)
(* of a writeFile and an unlink of its path, the signal of a successful    *)
(* write is the "modified" signal for the path exactly when the path       *)
(* existed at the moment the raw write was performed, and the "created"    *)
(* signal for the parent directory otherwise: the result of the existence  *)
(* check is never stale for the write it classifies.  Only the calls whose *)
(* check was answered rightly by the driver are looked at.                 *)
C20_ExistsCheckNeverStale ==
    \A i \in CallsOf("writeFile") :
        LET c == calls[i] IN
        (Succeeded(c, "write") /\ c.sigs # <<>> /\ c.alreadyExists = The(c.checked)) =>
            /\ The(c.existed) <=> c.sigs[1].path = c.path
            /\ ~The(c.existed) <=> c.sigs[1].path = ParentDir(c.path)

====
